---------------------------- MODULE Spec2Model ----------------------------
(***************************************************************************)
(* State-machine model of the BugBashPro extension:                        *)
(*   - the bug bash details saga (load / update orchestration),            *)
(*   - the command bar of BugBashViewHeader,                               *)
(*   - PeoplePickerProvider.onFilterIdentities,                            *)
(*   - activeWorkItemReducer.                                              *)
(* Each part has its own specification; the variables of the other parts   *)
(* stay at their initial values.                                           *)
(***************************************************************************)
EXTENDS Integers, Sequences, FiniteSets, TLC

VARIABLES
    state,        \* details slice of the Redux store: [status, error], per bug bash id
    tasks,        \* handler tasks suspended in a call(...) effect, i.e. remote calls in flight
    sagaRunning,  \* the takeEvery watchers of bugBashDetailsSaga are alive
    effects,      \* the put and call effects run by the step just taken, in order
    last,         \* the event handled by the step just taken (a request records whether a
                  \* watcher took it and the status its id had in the store)
    \* BugBashViewHeader
    props,        \* the props of the header: [bugBashId]
    itemsStatus,  \* useFilteredBugBashItems(id).status, per bug bash id
    bugBash,      \* whether useBugBash(id) has a bug bash, per bug bash id
    activated,    \* the command the user activated in the step just taken
    dispatched,   \* the actions the header dispatched in the step just taken
    \* PeoplePickerProvider
    pickerCall,   \* the arguments of the onFilterIdentities call: [filter, selectedItems],
                  \* selectedItems being <<>> (undefined) or <<the array>>
    searched,     \* <<>>, or <<the identities searchIdentitiesAsync resolved with>>
    pickerResult, \* <<>>, or <<the identities onFilterIdentities resolved with>>
    \* activeWorkItemReducer
    activeWorkItem,  \* the active work item slice: <<>> (undefined) or <<the state>>
    reducerAction,   \* the action the reducer was called with in the step just taken
    \* getIdentityService
    identityService, \* the module variable: <<>> (unset) or <<the service instance>>
    callers,         \* per caller of getIdentityService: [pc, service], service being
                     \* <<>> or <<the instance its promise resolved with>>
    getServiceCalls, \* how many times SDK.getService has been invoked
    \* onRenderBugBashItemCell
    cellCall,        \* the arguments of the call: [key, bugBashItem, acceptedWorkItem],
                     \* acceptedWorkItem being <<>> (undefined) or <<the work item>>
    cellResult       \* <<>>, or <<what the call returned or threw>>

sagaVars == <<state, tasks, sagaRunning, effects, last>>

headerVars == <<props, itemsStatus, bugBash, activated, dispatched>>

pickerVars == <<pickerCall, searched, pickerResult>>

reducerVars == <<activeWorkItem, reducerAction>>

identityVars == <<identityService, callers, getServiceCalls>>

cellVars == <<cellCall, cellResult>>

vars == <<sagaVars, headerVars, pickerVars, reducerVars, identityVars, cellVars>>

\* a step of one part leaves the other parts alone
SagaStep == UNCHANGED <<headerVars, pickerVars, reducerVars, identityVars, cellVars>>

HeaderStep == UNCHANGED <<sagaVars, pickerVars, reducerVars, identityVars, cellVars>>

PickerStep == UNCHANGED <<sagaVars, headerVars, reducerVars, identityVars, cellVars>>

ReducerStep == UNCHANGED <<sagaVars, headerVars, pickerVars, identityVars, cellVars>>

IdentityStep == UNCHANGED <<sagaVars, headerVars, pickerVars, reducerVars, cellVars>>

CellStep == UNCHANGED <<sagaVars, headerVars, pickerVars, reducerVars, identityVars>>

(***************************************************************************)
(* Bounds                                                                  *)
(***************************************************************************)
NumBugBashes == 2
NumEntityIds == 2
MaxIdentities == 2
MaxWorkItemId == 1
MaxRev == 1
NumCallers == 3
NumInstances == 2
NumDetails == 2
NumMessages == 2
MaxTasks == 3

BugBashIds == 1..NumBugBashes
Details == 1..NumDetails
Messages == 1..NumMessages
\* Error objects a remote call can reject with; e.message is a string
Errors == [message : Messages]

NoEvent == [type |-> "none"]

(***************************************************************************)
(* Common/Contracts LoadStatus and the details slice of the store          *)
(***************************************************************************)
LoadStatus == {"NotLoaded", "Loading", "Ready", "Updating", "UpdateFailed"}

getBugBashDetailsStatus(s, bugBashId) == s.status[bugBashId]

\* action creators, as called by the sagas
beginLoadBugBashDetails(bugBashId) ==
    [type |-> "BeginLoadBugBashDetails", bugBashId |-> bugBashId]

bugBashDetailsLoaded(bugBashId, details) ==
    [type |-> "BugBashDetailsLoaded", bugBashId |-> bugBashId, bugBashDetails |-> details]

beginUpdateBugBashDetails(bugBashId, bugBashDetails) ==
    [type |-> "BeginUpdateBugBashDetails", bugBashId |-> bugBashId, bugBashDetails |-> bugBashDetails]

BugBashDetailsUpdated(bugBashId, updatedDetails) ==
    [type |-> "BugBashDetailsUpdated", bugBashId |-> bugBashId, bugBashDetails |-> updatedDetails]

BugBashDetailsUpdateFailed(bugBashId, bugBashDetails, error) ==
    [type |-> "BugBashDetailsUpdateFailed", bugBashId |-> bugBashId,
     bugBashDetails |-> bugBashDetails, error |-> error]

\* the reducer of the details slice: each action replaces the entry of its id;
\* begin actions put the id into Loading / Updating, completions into Ready /
\* UpdateFailed, and a failure stores its message with the entry
bugBashDetailsReducer(s, action) ==
    CASE action.type = "BeginLoadBugBashDetails" ->
            [s EXCEPT !.status[action.bugBashId] = "Loading",
                      !.error[action.bugBashId] = <<>>]
      [] action.type = "BugBashDetailsLoaded" ->
            [s EXCEPT !.status[action.bugBashId] = "Ready",
                      !.error[action.bugBashId] = <<>>]
      [] action.type = "BeginUpdateBugBashDetails" ->
            [s EXCEPT !.status[action.bugBashId] = "Updating",
                      !.error[action.bugBashId] = <<>>]
      [] action.type = "BugBashDetailsUpdated" ->
            [s EXCEPT !.status[action.bugBashId] = "Ready",
                      !.error[action.bugBashId] = <<>>]
      [] action.type = "BugBashDetailsUpdateFailed" ->
            [s EXCEPT !.status[action.bugBashId] = "UpdateFailed",
                      !.error[action.bugBashId] = <<action.error>>]
      [] OTHER -> s

(***************************************************************************)
(* The details sagas                                                       *)
(***************************************************************************)
PutEffect(action) == [effect |-> "put", action |-> action]

CallEffect(fn, arg) == [effect |-> "call", fn |-> fn, arg |-> arg]

\* a step whose only effect is yield put(action): the action goes through the reducer
Put(action) ==
    /\ state' = bugBashDetailsReducer(state, action)
    /\ effects' = <<PutEffect(action)>>

\* a step that puts action and then suspends in yield call(fn, arg)
PutThenCall(action, fn, arg) ==
    /\ state' = bugBashDetailsReducer(state, action)
    /\ effects' = <<PutEffect(action), CallEffect(fn, arg)>>

NoEffect ==
    /\ effects' = <<>>
    /\ UNCHANGED state

Remove(seq, i) == SubSeq(seq, 1, i - 1) \o SubSeq(seq, i + 1, Len(seq))

Cancel(seq) == [i \in DOMAIN seq |-> [seq[i] EXCEPT !.cancelled = TRUE]]

selectAnyBugBashDetailsStatus(bugBashId) ==
    IF \E id \in BugBashIds : state.status[id] \in {"Loading", "Updating"}
    THEN "Loading"
    ELSE getBugBashDetailsStatus(state, bugBashId)

\* yield select(getBugBashDetailsStatus, bugBashId)
selectBugBashDetailsStatus(bugBashId) == getBugBashDetailsStatus(state, bugBashId)

LoadGuardRejectsReload(status) == status = "NotLoaded"

LoadGuardIgnoresUpdating(status) == status # "Loading"

\* status !== LoadStatus.Loading && status !== LoadStatus.Updating
LoadGuard(status) == status # "Loading" /\ status # "Updating"

UpdateGuardRejectsUpdateFailed(status) == status = "Ready"

UpdateGuardAcceptsLoading(status) == status # "Updating"

\* status === LoadStatus.Ready || status === LoadStatus.UpdateFailed
UpdateGuard(status) == status = "Ready" \/ status = "UpdateFailed"

\* loadBugBashDetails up to its call effect
loadBugBashDetails(bugBashId) ==
    LET status == selectBugBashDetailsStatus(bugBashId) IN
    IF LoadGuard(status)
    THEN /\ Len(tasks) < MaxTasks
         /\ PutThenCall(beginLoadBugBashDetails(bugBashId),
                        "fetchBugBashDetailsAsync", bugBashId)
         /\ tasks' = Append(tasks, [saga |-> "loadBugBashDetails",
                                    bugBashId |-> bugBashId, cancelled |-> FALSE])
    ELSE /\ NoEffect
         /\ UNCHANGED tasks

\* updateBugBashDetails up to its call effect
updateBugBashDetails(bugBashId, bugBashDetails) ==
    LET status == selectBugBashDetailsStatus(bugBashId) IN
    IF UpdateGuard(status)
    THEN /\ Len(tasks) < MaxTasks
         /\ PutThenCall(beginUpdateBugBashDetails(bugBashId, bugBashDetails),
                        "addOrUpdateDetailsAsync", bugBashDetails)
         /\ tasks' = Append(tasks, [saga |-> "updateBugBashDetails",
                                    bugBashId |-> bugBashId,
                                    bugBashDetails |-> bugBashDetails,
                                    cancelled |-> FALSE])
    ELSE /\ NoEffect
         /\ UNCHANGED tasks

\* takeEvery(BugBashDetailsLoadRequested, loadBugBashDetails): a dispatched
\* request is handled while the watcher is alive and is lost otherwise
LoadRequested(bugBashId) ==
    /\ SagaStep
    /\ IF sagaRunning
       THEN loadBugBashDetails(bugBashId)
       ELSE NoEffect /\ UNCHANGED tasks
    /\ last' = [type |-> "BugBashDetailsLoadRequested", bugBashId |-> bugBashId,
                taken |-> sagaRunning, status |-> state.status[bugBashId]]
    /\ UNCHANGED sagaRunning

\* takeEvery(BugBashDetailsUpdateRequested, updateBugBashDetails)
UpdateRequested(bugBashId, bugBashDetails) ==
    /\ SagaStep
    /\ IF sagaRunning
       THEN updateBugBashDetails(bugBashId, bugBashDetails)
       ELSE NoEffect /\ UNCHANGED tasks
    /\ last' = [type |-> "BugBashDetailsUpdateRequested", bugBashId |-> bugBashId,
                bugBashDetails |-> bugBashDetails, taken |-> sagaRunning,
                status |-> state.status[bugBashId]]
    /\ UNCHANGED sagaRunning

\* fetchBugBashDetailsAsync resolves: loadBugBashDetails resumes after its call
FetchResolved(i, details) ==
    /\ SagaStep
    /\ i \in DOMAIN tasks
    /\ tasks[i].saga = "loadBugBashDetails"
    /\ IF tasks[i].cancelled
       THEN NoEffect
       ELSE Put(bugBashDetailsLoaded(tasks[i].bugBashId, details))
    /\ tasks' = Remove(tasks, i)
    /\ last' = [type |-> "resolved", task |-> tasks[i], value |-> details]
    /\ UNCHANGED sagaRunning

\* fetchBugBashDetailsAsync rejects: nothing in loadBugBashDetails catches the
\* error, so it leaves the handler, ends the watcher that forked it and with it
\* bugBashDetailsSaga, whose other forks (watchers and handlers) are cancelled
FetchRejected(i, e) ==
    /\ SagaStep
    /\ i \in DOMAIN tasks
    /\ tasks[i].saga = "loadBugBashDetails"
    /\ NoEffect
    /\ IF tasks[i].cancelled
       THEN /\ tasks' = Remove(tasks, i)
            /\ UNCHANGED sagaRunning
       ELSE /\ tasks' = Cancel(Remove(tasks, i))
            /\ sagaRunning' = FALSE
    /\ last' = [type |-> "rejected", task |-> tasks[i], error |-> e]

\* addOrUpdateDetailsAsync resolves: updateBugBashDetails resumes in its try
AddOrUpdateResolved(i, updatedDetails) ==
    /\ SagaStep
    /\ i \in DOMAIN tasks
    /\ tasks[i].saga = "updateBugBashDetails"
    /\ IF tasks[i].cancelled
       THEN NoEffect
       ELSE Put(BugBashDetailsUpdated(tasks[i].bugBashId, updatedDetails))
    /\ tasks' = Remove(tasks, i)
    /\ last' = [type |-> "resolved", task |-> tasks[i], value |-> updatedDetails]
    /\ UNCHANGED sagaRunning

\* addOrUpdateDetailsAsync rejects: updateBugBashDetails resumes in its catch
AddOrUpdateRejected(i, e) ==
    /\ SagaStep
    /\ i \in DOMAIN tasks
    /\ tasks[i].saga = "updateBugBashDetails"
    /\ IF tasks[i].cancelled
       THEN NoEffect
       ELSE Put(BugBashDetailsUpdateFailed(tasks[i].bugBashId,
                                           tasks[i].bugBashDetails, e.message))
    /\ tasks' = Remove(tasks, i)
    /\ last' = [type |-> "rejected", task |-> tasks[i], error |-> e]
    /\ UNCHANGED sagaRunning

\* bugBashDetailsSaga has started its two watchers; nothing is loaded yet
SagaInit ==
    /\ state = [status |-> [id \in BugBashIds |-> "NotLoaded"],
                error |-> [id \in BugBashIds |-> <<>>]]
    /\ tasks = <<>>
    /\ sagaRunning = TRUE
    /\ effects = <<>>
    /\ last = NoEvent

SagaNext ==
    \/ \E bugBashId \in BugBashIds : LoadRequested(bugBashId)
    \/ \E bugBashId \in BugBashIds, d \in Details : UpdateRequested(bugBashId, d)
    \/ \E i \in 1..MaxTasks, d \in Details : FetchResolved(i, d)
    \/ \E i \in 1..MaxTasks, e \in Errors : FetchRejected(i, e)
    \/ \E i \in 1..MaxTasks, d \in Details : AddOrUpdateResolved(i, d)
    \/ \E i \in 1..MaxTasks, e \in Errors : AddOrUpdateRejected(i, e)

(***************************************************************************)
(* BugBashViewHeader                                                       *)
(***************************************************************************)
HeaderCommands == {"new", "edit", "refresh"}

openBugBashItemPortal(id, bugBashItemId) ==
    [type |-> "OpenBugBashItemPortal", bugBashId |-> id, bugBashItemId |-> bugBashItemId]

openBugBashPortal(id, options) ==
    [type |-> "OpenBugBashPortal", bugBashId |-> id, options |-> options]

bugBashItemsLoadRequested(id) ==
    [type |-> "BugBashItemsLoadRequested", bugBashId |-> id]

isLoadingOnlyWhileLoading(status) == status = "Loading"

\* const isLoading = status !== LoadStatus.Ready
isLoading(status) == status # "Ready"

\* the action the onActivate of a command dispatches
onActivate(command, id) ==
    CASE command = "new" -> openBugBashItemPortal(id, "undefined")
      [] command = "edit" -> openBugBashPortal(id, [readFromCache |-> TRUE])
      [] command = "refresh" -> bugBashItemsLoadRequested(id)

\* the commandBarItems the header renders for p
commandBarItems(p) ==
    [command \in HeaderCommands |->
        [disabled |-> isLoading(itemsStatus[p.bugBashId]),
         onActivate |-> onActivate(command, p.bugBashId)]]

\* BugBashViewHeader throws instead of rendering when there is no bug bash
Rendered(p) == bugBash[p.bugBashId]

\* the user activates a command of the rendered header; a disabled command
\* does not run its onActivate
Activate(command) ==
    /\ HeaderStep
    /\ Rendered(props)
    /\ activated' = command
    /\ dispatched' = IF commandBarItems(props)[command].disabled
                     THEN <<>>
                     ELSE <<commandBarItems(props)[command].onActivate>>
    /\ UNCHANGED <<props, itemsStatus, bugBash>>

\* the items slice of the store changes (items saga), the header renders again
ItemsStatusChanged(id, status) ==
    /\ HeaderStep
    /\ itemsStatus' = [itemsStatus EXCEPT ![id] = status]
    /\ activated' = "none"
    /\ dispatched' = <<>>
    /\ UNCHANGED <<props, bugBash>>

\* a bug bash is loaded into, or removed from, the store
BugBashChanged(id, present) ==
    /\ HeaderStep
    /\ bugBash' = [bugBash EXCEPT ![id] = present]
    /\ activated' = "none"
    /\ dispatched' = <<>>
    /\ UNCHANGED <<props, itemsStatus>>

\* the header is rendered for another bug bash
PropsChanged(id) ==
    /\ HeaderStep
    /\ props' = [bugBashId |-> id]
    /\ activated' = "none"
    /\ dispatched' = <<>>
    /\ UNCHANGED <<itemsStatus, bugBash>>

HeaderInit ==
    /\ props = [bugBashId |-> 1]
    /\ itemsStatus = [id \in BugBashIds |-> "NotLoaded"]
    /\ bugBash = [id \in BugBashIds |-> FALSE]
    /\ activated = "none"
    /\ dispatched = <<>>

HeaderNext ==
    \/ \E command \in HeaderCommands : Activate(command)
    \/ \E id \in BugBashIds, status \in LoadStatus : ItemsStatusChanged(id, status)
    \/ \E id \in BugBashIds, present \in BOOLEAN : BugBashChanged(id, present)
    \/ \E id \in BugBashIds : PropsChanged(id)

(***************************************************************************)
(* PeoplePickerProvider.onFilterIdentities                                 *)
(***************************************************************************)
\* IIdentity: two identities of different directories may share an entityId
Identities == [entityId : 1..NumEntityIds, originDirectory : {"aad", "vsd"}]

IdentityLists == UNION {[1..n -> Identities] : n \in 0..MaxIdentities}

Filters == {"", "a"}

filterIdentitiesByReference(identities, items) ==
    SelectSeq(identities,
              LAMBDA identity : ~\E k \in DOMAIN items : items[k] = identity)

\* identities.filter(identity => !items.some(selectedIdentity =>
\*     selectedIdentity.entityId === identity.entityId))
filterIdentities(identities, items) ==
    SelectSeq(identities,
              LAMBDA identity :
                  ~\E k \in DOMAIN items : items[k].entityId = identity.entityId)

\* selectedItems ? selectedItems : []
itemsOrEmpty(selectedItems) == IF selectedItems = <<>> THEN <<>> ELSE selectedItems[1]

\* searchIdentitiesAsync resolves with identities: _onSearchPersona filters
\* them against the items onFilterIdentities passed and resolves
SearchResolved(identities) ==
    /\ PickerStep
    /\ searched = <<>>
    /\ searched' = <<identities>>
    /\ pickerResult' = <<filterIdentities(identities, itemsOrEmpty(pickerCall.selectedItems))>>
    /\ UNCHANGED pickerCall

\* no onFilterIdentities call is under way
PickerIdle ==
    /\ pickerCall = [filter |-> "", selectedItems |-> <<>>]
    /\ searched = <<>>
    /\ pickerResult = <<>>

\* onFilterIdentities(filter, selectedItems) has been called and has issued
\* searchIdentitiesAsync(filter)
PickerCalled ==
    /\ pickerCall \in [filter : Filters,
                       selectedItems : {<<>>} \cup {<<items>> : items \in IdentityLists}]
    /\ searched = <<>>
    /\ pickerResult = <<>>

PickerNext == \E identities \in IdentityLists : SearchResolved(identities)

(***************************************************************************)
(* activeWorkItemReducer                                                   *)
(***************************************************************************)
ActiveWorkItemStates ==
    [id : 0..MaxWorkItemId, rev : 0..MaxRev, isNew : BOOLEAN,
     links : {"none", "links"}, queryableFields : {"none", "queryable"},
     sortableFields : {"none", "sortable"}, relationTypes : {"none", "relations"},
     project : {"none", "project"}, workItemTypeName : {"none", "Bug"}]

defaultActiveWorkItemState ==
    [id |-> 0, rev |-> 0, isNew |-> FALSE, links |-> "none",
     queryableFields |-> "none", sortableFields |-> "none", relationTypes |-> "none",
     project |-> "none", workItemTypeName |-> "none"]

\* the actions the store passes to the reducer
ReducerActions ==
    [type : {"SetActiveWorkItem"}, payload : ActiveWorkItemStates]
    \cup [type : {"@@redux/INIT", "OtherAction"}]

activeWorkItemReducerSwapsFields(s, action) ==
    LET base == IF s = <<>> THEN defaultActiveWorkItemState ELSE s[1] IN
    IF action.type = "SetActiveWorkItem"
    THEN <<[action.payload EXCEPT !.sortableFields =
                IF action.payload.queryableFields = "none" THEN "none" ELSE "sortable"]>>
    ELSE <<base>>

\* produce(state || defaultActiveWorkItemState, draft => switch (action.type) ...)
activeWorkItemReducer(s, action) ==
    LET base == IF s = <<>> THEN defaultActiveWorkItemState ELSE s[1] IN
    IF action.type = "SetActiveWorkItem"
    THEN <<[base EXCEPT !.id = action.payload.id,
                        !.rev = action.payload.rev,
                        !.isNew = action.payload.isNew,
                        !.links = action.payload.links,
                        !.queryableFields = action.payload.queryableFields,
                        !.sortableFields = action.payload.sortableFields,
                        !.relationTypes = action.payload.relationTypes,
                        !.project = action.payload.project,
                        !.workItemTypeName = action.payload.workItemTypeName]>>
    ELSE <<base>>

\* the store calls the reducer with its current slice and the dispatched action
Reduce(action) ==
    /\ ReducerStep
    /\ activeWorkItem' = activeWorkItemReducer(activeWorkItem, action)
    /\ reducerAction' = action

ReducerInit ==
    /\ activeWorkItem = <<>>
    /\ reducerAction = [type |-> "none"]

ReducerNext == \E action \in ReducerActions : Reduce(action)

(***************************************************************************)
(* getIdentityService                                                      *)
(***************************************************************************)
\* the calls of getIdentityService, made directly or by the constructor of a
\* PeoplePickerProvider
Callers == 1..NumCallers

\* the service objects SDK.getService can resolve with
Instances == 1..NumInstances

\* getIdentityService() is called: it runs to its await, or, with the module
\* variable set, to its return
GetIdentityService(c) ==
    /\ IdentityStep
    /\ callers[c].pc = "idle"
    /\ IF identityService = <<>>
       THEN /\ getServiceCalls' = getServiceCalls + 1
            /\ callers' = [callers EXCEPT ![c].pc = "awaiting"]
       ELSE /\ callers' = [callers EXCEPT ![c] = [pc |-> "done", service |-> identityService]]
            /\ UNCHANGED getServiceCalls
    /\ UNCHANGED identityService

\* the SDK.getService promise a caller awaits resolves: the caller assigns the
\* module variable and returns it
GetServiceResolved(c, instance) ==
    /\ IdentityStep
    /\ callers[c].pc = "awaiting"
    /\ identityService' = <<instance>>
    /\ callers' = [callers EXCEPT ![c] = [pc |-> "done", service |-> <<instance>>]]
    /\ UNCHANGED getServiceCalls

\* the SDK.getService promise a caller awaits rejects: so does the caller's
GetServiceRejected(c) ==
    /\ IdentityStep
    /\ callers[c].pc = "awaiting"
    /\ callers' = [callers EXCEPT ![c].pc = "rejected"]
    /\ UNCHANGED <<identityService, getServiceCalls>>

IdentityInit ==
    /\ identityService = <<>>
    /\ callers = [c \in Callers |-> [pc |-> "idle", service |-> <<>>]]
    /\ getServiceCalls = 0

IdentityNext ==
    \/ \E c \in Callers : GetIdentityService(c)
    \/ \E c \in Callers, instance \in Instances : GetServiceResolved(c, instance)
    \/ \E c \in Callers : GetServiceRejected(c)

(***************************************************************************)
(* onRenderBugBashItemCell                                                 *)
(***************************************************************************)
\* ../Constants: the column keys
BugBashItemFieldNames ==
    {"title", "status", "teamId", "createdBy", "createdDate", "rejectReason"}

WorkItemFieldNames ==
    {"System.Id", "System.Title", "System.State", "System.AssignedTo", "System.AreaPath"}

BugBashItemKeyTypes ==
    [key \in BugBashItemFieldNames \cup WorkItemFieldNames |->
        CASE key \in {"createdBy", "System.AssignedTo"} -> "identityRef"
          [] key = "createdDate" -> "date"
          [] OTHER -> "string"]

\* ../Helpers
isWorkItemFieldName(key) == key \in WorkItemFieldNames

isBugBashItemAccepted(bugBashItem) == bugBashItem.workItemId > 0

isBugBashItemRejected(bugBashItem) ==
    ~isBugBashItemAccepted(bugBashItem) /\ bugBashItem.rejected

\* IBugBashItem: workItemId 0 stands for a bug bash item without a work item
BugBashItems ==
    [title : {"item title", "other title"}, workItemId : 0..MaxWorkItemId,
     rejected : BOOLEAN, teamId : {"team"}, createdBy : {"creator"},
     createdDate : {"date"}, rejectReason : {"reason"}]

WorkItems ==
    [id : 1..MaxWorkItemId,
     fields : [WorkItemFieldNames \cup {"System.WorkItemType"} ->
                  {"field value", "other field value"}]]

\* reading a property of undefined
TypeError == [element |-> "TypeError"]

\* lines 26-36: the value of the cell, <<>> standing for undefined
cellValue(key, bugBashItem, acceptedWorkItem) ==
    LET isAccepted == isBugBashItemAccepted(bugBashItem) IN
    IF isWorkItemFieldName(key)
    THEN IF isAccepted /\ acceptedWorkItem # <<>>
         THEN IF key = "System.Id"
              THEN <<bugBashItem.workItemId>>
              ELSE <<acceptedWorkItem[1].fields[key]>>
         ELSE <<>>
    ELSE IF key = "title" /\ isAccepted /\ acceptedWorkItem # <<>>
         THEN <<acceptedWorkItem[1].fields["System.Title"]>>
         ELSE IF key # "status" THEN <<bugBashItem[key]>> ELSE <<>>

renderStatusCell(bugBashItem) ==
    [element |-> "Icon",
     tooltip |-> IF isBugBashItemAccepted(bugBashItem) THEN "Accepted"
                 ELSE IF isBugBashItemRejected(bugBashItem) THEN "Rejected"
                 ELSE "Pending"]

\* acceptedWorkItem!.id and acceptedWorkItem!.fields[WorkItemType]
workItemTitleView(acceptedWorkItem, value) ==
    IF acceptedWorkItem = <<>>
    THEN TypeError
    ELSE [element |-> "WorkItemTitleView", workItemId |-> acceptedWorkItem[1].id,
          title |-> value,
          workItemTypeName |-> acceptedWorkItem[1].fields["System.WorkItemType"]]

\* acceptedWorkItem!.fields[WorkItemType]
workItemStateView(acceptedWorkItem, value) ==
    IF acceptedWorkItem = <<>>
    THEN TypeError
    ELSE [element |-> "WorkItemStateView", stateName |-> value,
          workItemTypeName |-> acceptedWorkItem[1].fields["System.WorkItemType"]]

\* lines 38-82: the inner element of the cell
innerElement(key, bugBashItem, acceptedWorkItem, value) ==
    LET isAccepted == isBugBashItemAccepted(bugBashItem) IN
    IF key = "status" THEN renderStatusCell(bugBashItem)
    ELSE IF key = "title"
    THEN IF isAccepted
         THEN workItemTitleView(acceptedWorkItem, value)
         ELSE [element |-> "AsyncLinkComponent", title |-> bugBashItem.title]
    ELSE IF key = "System.State" /\ isAccepted
    THEN workItemStateView(acceptedWorkItem, value)
    ELSE IF key = "teamId" THEN [element |-> "TeamView", teamId |-> value]
    ELSE IF BugBashItemKeyTypes[key] = "identityRef"
    THEN [element |-> "IdentityView", value |-> value]
    ELSE IF BugBashItemKeyTypes[key] = "date"
    THEN [element |-> "Tooltip", ago |-> value]
    ELSE [element |-> "Tooltip", text |-> value]

\* the cell returned, or the TypeError thrown while building it
onRenderBugBashItemCell(key, bugBashItem, acceptedWorkItem) ==
    LET inner == innerElement(key, bugBashItem, acceptedWorkItem,
                              cellValue(key, bugBashItem, acceptedWorkItem))
    IN IF inner = TypeError
       THEN TypeError
       ELSE [element |-> "SimpleTableCell", children |-> inner]

\* the table renders the cell
RenderCell ==
    /\ CellStep
    /\ cellResult = <<>>
    /\ cellResult' = <<onRenderBugBashItemCell(cellCall.key, cellCall.bugBashItem,
                                               cellCall.acceptedWorkItem)>>
    /\ UNCHANGED cellCall

\* no cell is being rendered
CellIdle ==
    /\ cellCall = [key |-> "status",
                   bugBashItem |-> [title |-> "item title", workItemId |-> 0,
                                    rejected |-> FALSE, teamId |-> "team",
                                    createdBy |-> "creator", createdDate |-> "date",
                                    rejectReason |-> "reason"],
                   acceptedWorkItem |-> <<>>]
    /\ cellResult = <<>>

\* onRenderBugBashItemCell is about to be called for a column and a row
CellCalled ==
    /\ cellCall \in [key : BugBashItemFieldNames \cup WorkItemFieldNames,
                     bugBashItem : BugBashItems,
                     acceptedWorkItem : {<<>>} \cup {<<w>> : w \in WorkItems}]
    /\ cellResult = <<>>

CellNext == RenderCell

(***************************************************************************)
(* Specifications                                                          *)
(***************************************************************************)
Init == SagaInit /\ HeaderInit /\ PickerIdle /\ ReducerInit /\ IdentityInit /\ CellIdle

Next == SagaNext

Spec == Init /\ [][Next]_vars

SpecHeader == Init /\ [][HeaderNext]_vars

InitPicker ==
    SagaInit /\ HeaderInit /\ PickerCalled /\ ReducerInit /\ IdentityInit /\ CellIdle

SpecPicker == InitPicker /\ [][PickerNext]_vars

SpecReducer == Init /\ [][ReducerNext]_vars

SpecIdentity == Init /\ [][IdentityNext]_vars

InitCell ==
    SagaInit /\ HeaderInit /\ PickerIdle /\ ReducerInit /\ IdentityInit /\ CellCalled

SpecCell == InitCell /\ [][CellNext]_vars

(***************************************************************************)
(* Properties of the details sagas                                         *)
(***************************************************************************)
\* the remote calls in flight for an id (settled or not by a cancelled handler)
InFlight(bugBashId) == {i \in DOMAIN tasks : tasks[i].bugBashId = bugBashId}

Busy == {"Loading", "Updating"}

RequestTypes == {"BugBashDetailsLoadRequested", "BugBashDetailsUpdateRequested"}

CompletionTypes == {"BugBashDetailsLoaded", "BugBashDetailsUpdated", "BugBashDetailsUpdateFailed"}

\* the step just taken ran a handler on a request
TakenRequest(l) == l.type \in RequestTypes /\ l.taken

\* C1: single flight per entity - at most one remote call
\* (fetchBugBashDetailsAsync or addOrUpdateDetailsAsync) is in flight for a
\* bugBashId at any time, and an id with a running handler is Loading or Updating
C1_SingleFlight ==
    \A id \in BugBashIds :
        /\ Cardinality(InFlight(id)) <= 1
        /\ \A i \in InFlight(id) : ~tasks[i].cancelled => state.status[id] \in Busy

\* a request for an id arrived while a call for that id was in flight, and was dropped
C1_Witness ==
    /\ TakenRequest(last)
    /\ effects = <<>>
    /\ \E i \in InFlight(last.bugBashId) : ~tasks[i].cancelled

\* C2: whenever the remote call of a details saga rejects, one action carrying
\* the error's message for that bugBashId is dispatched and the message is stored
C2_FailureStored ==
    last.type = "rejected" =>
        /\ Len(effects) = 1
        /\ effects[1].effect = "put"
        /\ effects[1].action.bugBashId = last.task.bugBashId
        /\ effects[1].action.type = "BugBashDetailsUpdateFailed"
        /\ effects[1].action.error = last.error.message
        /\ state.error[last.task.bugBashId] = <<last.error.message>>

\* C3: once the remote call of a begun load or update settles, exactly one
\* completion action for its bugBashId is dispatched, and an id is Loading or
\* Updating only while a handler that will complete it is still waiting
C3_OutcomePropagated ==
    /\ last.type \in {"resolved", "rejected"} =>
          /\ Len(effects) = 1
          /\ effects[1].effect = "put"
          /\ effects[1].action.type \in CompletionTypes
          /\ effects[1].action.bugBashId = last.task.bugBashId
    /\ \A id \in BugBashIds :
          state.status[id] \in Busy => \E i \in InFlight(id) : ~tasks[i].cancelled

\* C4: updateBugBashDetails puts beginUpdateBugBashDetails and calls
\* addOrUpdateDetailsAsync if and only if the status of the id is Ready or
\* UpdateFailed; for any other status it does nothing
C4_UpdateGuarded ==
    [][\A id \in BugBashIds, d \in Details :
          (/\ last'.type = "BugBashDetailsUpdateRequested"
           /\ last'.taken
           /\ last'.bugBashId = id
           /\ last'.bugBashDetails = d)
          => IF state.status[id] \in {"Ready", "UpdateFailed"}
             THEN effects' = <<PutEffect(beginUpdateBugBashDetails(id, d)),
                               CallEffect("addOrUpdateDetailsAsync", d)>>
             ELSE effects' = <<>> /\ state' = state /\ tasks' = tasks]_vars

\* an update request for a Ready id was accepted: begin put, then the remote call
C4_Witness ==
    /\ last.type = "BugBashDetailsUpdateRequested"
    /\ last.taken
    /\ last.status = "Ready"
    /\ Len(effects) = 2

\* C5: loadBugBashDetails does nothing when the status of the id is Loading or
\* Updating; for every other status it puts beginLoadBugBashDetails, then calls
\* fetchBugBashDetailsAsync once, and when the fetch resolves it puts
\* bugBashDetailsLoaded with the fetched details and the same id
C5_LoadGuarded ==
    [][/\ \A id \in BugBashIds :
            (/\ last'.type = "BugBashDetailsLoadRequested"
             /\ last'.taken
             /\ last'.bugBashId = id)
            => IF state.status[id] \in Busy
               THEN effects' = <<>> /\ state' = state /\ tasks' = tasks
               ELSE effects' = <<PutEffect(beginLoadBugBashDetails(id)),
                                 CallEffect("fetchBugBashDetailsAsync", id)>>
       /\ (/\ last'.type = "resolved"
           /\ last'.task.saga = "loadBugBashDetails"
           /\ ~last'.task.cancelled)
          => effects' = <<PutEffect(bugBashDetailsLoaded(last'.task.bugBashId, last'.value))>>
      ]_vars

\* a reload: a load request for a Ready id was accepted and its fetch issued
C5_Witness ==
    /\ last.type = "BugBashDetailsLoadRequested"
    /\ last.taken
    /\ last.status = "Ready"
    /\ Len(effects) = 2
    /\ state.status[last.bugBashId] = "Loading"

\* C6: when addOrUpdateDetailsAsync rejects, updateBugBashDetails puts
\* BugBashDetailsUpdateFailed with the same id, the submitted details and the
\* error message, which leaves the id UpdateFailed; an update request that finds
\* the id UpdateFailed is accepted and issues a new remote call
C6_FailedUpdateRecoverable ==
    [][/\ (/\ last'.type = "rejected"
           /\ last'.task.saga = "updateBugBashDetails"
           /\ ~last'.task.cancelled)
          => /\ effects' = <<PutEffect(BugBashDetailsUpdateFailed(
                                 last'.task.bugBashId, last'.task.bugBashDetails,
                                 last'.error.message))>>
             /\ state'.status[last'.task.bugBashId] = "UpdateFailed"
       /\ \A id \in BugBashIds, d \in Details :
            (/\ last'.type = "BugBashDetailsUpdateRequested"
             /\ last'.taken
             /\ last'.bugBashId = id
             /\ last'.bugBashDetails = d
             /\ state.status[id] = "UpdateFailed")
            => /\ effects' = <<PutEffect(beginUpdateBugBashDetails(id, d)),
                               CallEffect("addOrUpdateDetailsAsync", d)>>
               /\ Cardinality(InFlight(id)') = 1
      ]_vars

\* an update was retried after it had failed
C6_Witness ==
    /\ last.type = "BugBashDetailsUpdateRequested"
    /\ last.taken
    /\ last.status = "UpdateFailed"
    /\ Len(effects) = 2
    /\ state.status[last.bugBashId] = "Updating"

\* C7: the guard is per entity - a request for an id is accepted or dropped by
\* the status of that id alone, whatever is in flight for other ids, and the
\* actions dispatched for a request never carry, or change the status of,
\* another id
C7_GuardPerEntity ==
    [][/\ \A id \in BugBashIds :
            (TakenRequest(last') /\ last'.bugBashId = id)
            => /\ (effects' # <<>>) <=>
                     IF last'.type = "BugBashDetailsLoadRequested"
                     THEN state.status[id] \notin Busy
                     ELSE state.status[id] \in {"Ready", "UpdateFailed"}
               /\ \A k \in DOMAIN effects' :
                     effects'[k].effect = "put" => effects'[k].action.bugBashId = id
               /\ \A other \in BugBashIds \ {id} :
                     state'.status[other] = state.status[other]
       /\ (last'.type \in {"resolved", "rejected"})
          => /\ \A k \in DOMAIN effects' :
                  effects'[k].effect = "put"
                     => effects'[k].action.bugBashId = last'.task.bugBashId
             /\ \A other \in BugBashIds \ {last'.task.bugBashId} :
                  state'.status[other] = state.status[other]
      ]_vars

\* a request for one id was accepted while a call for another id was in flight
C7_Witness ==
    /\ TakenRequest(last)
    /\ effects # <<>>
    /\ \E other \in BugBashIds \ {last.bugBashId} :
          \E i \in InFlight(other) : ~tasks[i].cancelled

(***************************************************************************)
(* Properties of BugBashViewHeader                                         *)
(***************************************************************************)
\* C8: the new, edit and refresh commands are all disabled exactly when the
\* items status is not Ready, so the header dispatches openBugBashItemPortal
\* (new), openBugBashPortal with readFromCache (edit) and
\* bugBashItemsLoadRequested (refresh) only while the items status is Ready
C8_CommandsOnlyWhenReady ==
    /\ \A command \in HeaderCommands :
          commandBarItems(props)[command].disabled
             <=> itemsStatus[props.bugBashId] # "Ready"
    /\ dispatched # <<>> =>
          /\ itemsStatus[props.bugBashId] = "Ready"
          /\ Len(dispatched) = 1
          /\ dispatched[1].bugBashId = props.bugBashId
          /\ activated = "new" => dispatched[1].type = "OpenBugBashItemPortal"
          /\ activated = "refresh" => dispatched[1].type = "BugBashItemsLoadRequested"
          /\ activated = "edit" =>
                /\ dispatched[1].type = "OpenBugBashPortal"
                /\ dispatched[1].options.readFromCache

\* the edit command was activated while the items were Ready and opened the portal
C8_Witness ==
    /\ activated = "edit"
    /\ dispatched # <<>>
    /\ itemsStatus[props.bugBashId] = "Ready"

(***************************************************************************)
(* Properties of PeoplePickerProvider.onFilterIdentities                   *)
(***************************************************************************)
\* the entityIds of the selected items of the call
SelectedEntityIds ==
    LET items == IF pickerCall.selectedItems = <<>> THEN <<>> ELSE pickerCall.selectedItems[1]
    IN {items[k].entityId : k \in DOMAIN items}

\* the positions of the search result whose identity is not selected
Kept == {i \in DOMAIN searched[1] : searched[1][i].entityId \notin SelectedEntityIds}

\* the k-th smallest position kept
KthKept(k) == CHOOSE i \in Kept : Cardinality({j \in Kept : j <= i}) = k

\* C9: onFilterIdentities resolves with exactly the identities the search
\* returned, in the same order, minus every identity whose entityId is the
\* entityId of a selected item; with selectedItems undefined or empty it
\* resolves with the search result unchanged
C9_FilterIdentities ==
    pickerResult # <<>> =>
        /\ Len(pickerResult[1]) = Cardinality(Kept)
        /\ \A k \in 1..Len(pickerResult[1]) : pickerResult[1][k] = searched[1][KthKept(k)]
        /\ pickerCall.selectedItems \in {<<>>, << <<>> >>} => pickerResult[1] = searched[1]

\* a search result with a selected and an unselected identity has been
\* filtered; the selected item shares only its entityId with the one dropped
C9_Witness ==
    /\ pickerResult # <<>>
    /\ Len(pickerResult[1]) = 1
    /\ Len(searched[1]) = 2
    /\ \E k \in DOMAIN pickerCall.selectedItems[1], i \in DOMAIN searched[1] :
          /\ pickerCall.selectedItems[1][k].entityId = searched[1][i].entityId
          /\ pickerCall.selectedItems[1][k] # searched[1][i]

(***************************************************************************)
(* Properties of activeWorkItemReducer                                     *)
(***************************************************************************)
\* C10: for every action type other than SetActiveWorkItem the reducer returns
\* its input state (defaultActiveWorkItemState when the input is undefined); on
\* SetActiveWorkItem the nine fields equal the payload's, and applying the same
\* action again gives the same state
C10_OnlySetActiveWorkItem ==
    [][IF reducerAction'.type = "SetActiveWorkItem"
       THEN /\ activeWorkItem'[1].id = reducerAction'.payload.id
            /\ activeWorkItem'[1].rev = reducerAction'.payload.rev
            /\ activeWorkItem'[1].isNew = reducerAction'.payload.isNew
            /\ activeWorkItem'[1].links = reducerAction'.payload.links
            /\ activeWorkItem'[1].queryableFields = reducerAction'.payload.queryableFields
            /\ activeWorkItem'[1].sortableFields = reducerAction'.payload.sortableFields
            /\ activeWorkItem'[1].relationTypes = reducerAction'.payload.relationTypes
            /\ activeWorkItem'[1].project = reducerAction'.payload.project
            /\ activeWorkItem'[1].workItemTypeName = reducerAction'.payload.workItemTypeName
            /\ activeWorkItemReducer(activeWorkItem', reducerAction') = activeWorkItem'
       ELSE activeWorkItem' = IF activeWorkItem = <<>>
                              THEN <<defaultActiveWorkItemState>>
                              ELSE activeWorkItem
      ]_vars

\* SetActiveWorkItem has been applied with a payload that differs from the default state
C10_Witness ==
    /\ reducerAction.type = "SetActiveWorkItem"
    /\ activeWorkItem = <<reducerAction.payload>>
    /\ reducerAction.payload.id # defaultActiveWorkItemState.id
    /\ reducerAction.payload.sortableFields # reducerAction.payload.queryableFields

(***************************************************************************)
(* Properties of getIdentityService                                        *)
(***************************************************************************)
\* C11: the identity service is obtained at most once - under any
\* interleaving of getIdentityService calls SDK.getService is invoked at most
\* one time and every caller receives the same service instance
C11_ServiceObtainedOnce ==
    /\ getServiceCalls <= 1
    /\ \A c1, c2 \in Callers :
          (callers[c1].pc = "done" /\ callers[c2].pc = "done")
             => callers[c1].service = callers[c2].service

(***************************************************************************)
(* Properties of onRenderBugBashItemCell                                   *)
(***************************************************************************)
\* C12: onRenderBugBashItemCell never reads a property of an undefined
\* acceptedWorkItem - for every column key and every bug bash item, with
\* acceptedWorkItem present or absent, it returns a cell without error
C12_CellWithoutError ==
    cellResult # <<>> =>
        /\ cellResult[1] # TypeError
        /\ cellResult[1].element = "SimpleTableCell"

=============================================================================
